---- MODULE Spec2Model ----
(***************************************************************************)
(* Model of src/plugins/image_album/image_album.py: one call of            *)
(* ImageAlbum.generate_image, which drives ImmichProvider.get_image        *)
(* (get_album_id, get_asset_ids, get_aligned_images and the download       *)
(* re-roll loop) and then pads the image or shuts the host down.           *)
(* Every HTTP response is an input of the step that issues the request.    *)
(***************************************************************************)
EXTENDS Integers, Sequences, FiniteSets, TLC

(* ---------------------------- bounds ----------------------------------- *)
\* number of non-empty pages the service serves for one album
MaxPages == 2
\* number of assets the service serves for one album, over all pages
MaxItems == 3

(* ---------------------------- input domains ---------------------------- *)
\* Python's None, as a setting or key value
None == "<None>"

\* "other" stands for any value that is neither "horizontal" nor "vertical"
Orientations == {"horizontal", "vertical", "other"}
Providers == {"Immich", "Flickr"}
SettingValues == {None, "", "set"}
PadImageValues == {"true", "false", None}
BackgroundOptions == {"blur", "color"}
BackgroundColors == {None, "#000000"}

\* album lists the service answers GET /api/albums with
AlbumLists ==
    { <<>>,
      << [albumName |-> "other", id |-> "w"] >>,
      << [albumName |-> "set", id |-> "h1"] >>,
      << [albumName |-> "other", id |-> "w"], [albumName |-> "set", id |-> "h1"] >>,
      << [albumName |-> "set", id |-> "h2"], [albumName |-> "set", id |-> "h1"] >> }

\* asset records of the search response: id and exifInfo's width and height
\* (a5: an asset whose EXIF dimensions are null)
Null == -1
AssetUniverse ==
    { [id |-> "a1", exifImageWidth |-> 2, exifImageHeight |-> 1],
      [id |-> "a2", exifImageWidth |-> 3, exifImageHeight |-> 2],
      [id |-> "a3", exifImageWidth |-> 1, exifImageHeight |-> 2],
      [id |-> "a4", exifImageWidth |-> 2, exifImageHeight |-> 2],
      [id |-> "a5", exifImageWidth |-> Null, exifImageHeight |-> Null] }

\* (width, height) of a downloaded, decoded image
PixelDims == { <<2, 1>>, <<1, 2>>, <<2, 2>> }

\* outcomes of one HTTP exchange
Responses == {"ok", "http_error"}

NoImg == [id |-> None, width |-> 0, height |-> 0]
NoPad == [padImage |-> "unread", backgroundOption |-> "unread", backgroundColor |-> "unread"]

\* sequences over S of length at most n in which no element repeats
RECURSIVE SeqsUpTo(_, _)
SeqsUpTo(S, n) ==
    IF n = 0 THEN { <<>> }
    ELSE LET shorter == SeqsUpTo(S, n - 1)
         IN  shorter \cup
             UNION { { Append(s, x) : x \in S \ { s[i] : i \in DOMAIN s } } :
                     s \in shorter }

(* ---------------------------- state ------------------------------------ *)
VARIABLES
    settings,      \* albumProvider, url, album of the settings mapping
    key,           \* device_config.load_env_key("IMMICH_KEY")
    orientation,   \* device_config.get_config("orientation")
    pc,            \* position of the call
    requests,      \* HTTP requests issued so far, in order
    matching,      \* ids of the albums whose albumName equals the album setting
    album_id,      \* result of get_album_id
    page,          \* get_asset_ids: next page number
    served,        \* get_asset_ids: item lists of the responses received
    all_items,     \* get_asset_ids: accumulated items
    asset_ids,     \* get_image: candidate id list
    rejected,      \* get_image: ids removed from the candidate list, in order
    img,           \* get_image: last decoded download
    caught,        \* exception caught and logged at get_image's except clause
    failed,        \* kind of the HTTP request that failed, if any
    raised,        \* exception that leaves generate_image
    result,        \* what generate_image returned
    pad,           \* padImage, backgroundOption, backgroundColor as read
    shutdowns      \* number of "sudo shutdown now" commands issued

vars == << settings, key, orientation, pc, requests, matching, album_id, page,
           served, all_items, asset_ids, rejected, img, caught, failed, raised,
           result, pad, shutdowns >>

(* ---------------------------- helpers ---------------------------------- *)
\* Python truthiness of a setting or key: None and "" are falsy
Falsy(v) == v \in {None, ""}

FailedToLoad == "RuntimeError: Failed to load image, please check logs."

\* the page numbers of the metadata-search requests, in order
SearchPages ==
    LET s == SelectSeq(requests, LAMBDA r : r[1] = "search")
    IN  [i \in 1..Len(s) |-> s[i][2]]

\* the asset ids of the download requests, in order
Downloads ==
    LET s == SelectSeq(requests, LAMBDA r : r[1] = "asset")
    IN  [i \in 1..Len(s) |-> s[i][2]]

Ids(items) == [i \in 1..Len(items) |-> items[i].id]

Init ==
    /\ settings \in [albumProvider : Providers, url : SettingValues, album : SettingValues]
    /\ key \in SettingValues
    /\ orientation \in Orientations
    /\ pc = "generate_image"
    /\ requests = <<>>
    /\ matching = <<>>
    /\ album_id = None
    /\ page = 1
    /\ served = <<>>
    /\ all_items = <<>>
    /\ asset_ids = <<>>
    /\ rejected = <<>>
    /\ img = NoImg
    /\ caught = "none"
    /\ failed = "none"
    /\ raised = "none"
    /\ result = "none"
    /\ pad = NoPad
    /\ shutdowns = 0

(* ---------------------------- ImmichProvider --------------------------- *)
\* get_album_id: [a for a in albums if a["albumName"] == album]
MatchingAlbums(albums, album) == SelectSeq(albums, LAMBDA a : a.albumName = album)

\* a paging loop that stops at the first page holding fewer than two items
ContinueWhileFull(page_items) == Len(page_items) > 1

\* get_asset_ids: the loop condition "while page_items"
ContinuePaging(page_items) == page_items # <<>>

\* get_asset_ids: all_items.extend(page_items)
Extend(items, page_items) == items \o page_items

\* get_asset_ids: page += 1
NextPage(p) == p + 1

\* an orientation filter that lets square assets through
ExifAlignedOrSquare(o, w, h) ==
    (o = "horizontal" /\ w >= h) \/ (o = "vertical" /\ w <= h)

\* get_aligned_images: the condition under which an asset is appended
ExifAligned(o, w, h) ==
    (o = "horizontal" /\ w > h) \/ (o = "vertical" /\ w < h)

\* get_aligned_images: the loop over assets, appending the aligned ones
RECURSIVE AlignedFrom(_, _, _, _)
AlignedFrom(assets, o, i, items) ==
    IF i > Len(assets) THEN items
    ELSE LET asset == assets[i]
             w == asset.exifImageWidth
             h == asset.exifImageHeight
         IN  AlignedFrom(assets, o, i + 1,
                         IF ExifAligned(o, w, h) THEN Append(items, asset) ELSE items)

get_aligned_images(assets, o) == AlignedFrom(assets, o, 1, <<>>)

\* get_aligned_images: comparing null dimensions raises TypeError; the
\* comparison is reached only behind a matching orientation test
RaisesTypeError(assets, o) ==
    /\ o \in {"horizontal", "vertical"}
    /\ \E i \in DOMAIN assets :
          assets[i].exifImageWidth = Null \/ assets[i].exifImageHeight = Null

\* an alignment test that lets square images through
PixelAlignedOrSquare(o, width, height) ==
    (o = "horizontal" /\ width >= height) \/ (o = "vertical" /\ height >= width)

\* get_image: the alignment test on the downloaded image
PixelAligned(o, width, height) ==
    (o = "horizontal" /\ width > height) \/ (o = "vertical" /\ height > width)

\* get_image: asset_ids.remove(asset_id) removes the first occurrence
RECURSIVE IndexOf(_, _, _)
IndexOf(ids, id, i) ==
    IF ids[i] = id THEN i ELSE IndexOf(ids, id, i + 1)

\* a removal that leaves the list as it is
RemoveNothing(ids, id) == ids

Remove(ids, id) ==
    LET k == IndexOf(ids, id, 1)
    IN  SubSeq(ids, 1, k - 1) \o SubSeq(ids, k + 1, Len(ids))

\* item lists the service may answer page p with
PageItems(p, have) ==
    IF p > MaxPages THEN { <<>> }
    ELSE SeqsUpTo(AssetUniverse, MaxItems - have)

(* ---------------------------- ImageAlbum ------------------------------- *)
\* the required-setting checks with the album checked before the URL
ConfigErrorAlbumFirst(k, s) ==
    IF Falsy(k) THEN "RuntimeError: Immich API Key not configured."
    ELSE IF Falsy(s.album) THEN "RuntimeError: Album is required."
    ELSE IF Falsy(s.url) THEN "RuntimeError: URL is required."
    ELSE "none"

\* generate_image: the three required-setting checks, in order
ConfigError(k, s) ==
    IF Falsy(k) THEN "RuntimeError: Immich API Key not configured."
    ELSE IF Falsy(s.url) THEN "RuntimeError: URL is required."
    ELSE IF Falsy(s.album) THEN "RuntimeError: Album is required."
    ELSE "none"

\* a padding test on the truthiness of the setting
PadTruthy(padImage) == ~Falsy(padImage)

\* generate_image: settings.get('padImage') == "true"
PadRequested(padImage) == padImage = "true"

(* ---------------------------- actions ---------------------------------- *)
\* generate_image up to the call of provider.get_image
GenerateImage ==
    /\ pc = "generate_image"
    /\ IF settings.albumProvider = "Immich"
       THEN IF ConfigError(key, settings) # "none"
            THEN /\ raised' = ConfigError(key, settings)
                 /\ pc' = "done"
            ELSE /\ pc' = "get_album_id"
                 /\ UNCHANGED raised
       ELSE /\ raised' = FailedToLoad
            /\ pc' = "done"
    /\ UNCHANGED << settings, key, orientation, requests, matching, album_id, page,
                    served, all_items, asset_ids, rejected, img, caught, failed,
                    result, pad, shutdowns >>

\* get_image's except clause: log, return None; generate_image then raises
CaughtInClient(e) ==
    /\ caught' = e
    /\ raised' = FailedToLoad
    /\ pc' = "done"

\* get_album_id, called inside get_image's try block
GetAlbumId ==
    /\ pc = "get_album_id"
    /\ requests' = Append(requests, <<"albums", settings.url>>)
    /\ \E resp \in Responses, albums \in AlbumLists :
          IF resp = "http_error"
          THEN /\ failed' = "albums"
               /\ CaughtInClient("HTTPError")
               /\ UNCHANGED << matching, album_id >>
          ELSE LET album == MatchingAlbums(albums, settings.album)
               IN  /\ matching' = Ids(album)
                   /\ UNCHANGED failed
                   /\ IF album = <<>>
                      THEN /\ CaughtInClient("IndexError")
                           /\ UNCHANGED album_id
                      ELSE /\ album_id' = album[1].id
                           /\ pc' = "get_asset_ids"
                           /\ UNCHANGED << caught, raised >>
    /\ UNCHANGED << settings, key, orientation, page, served, all_items, asset_ids,
                    rejected, img, result, pad, shutdowns >>

\* get_asset_ids: one iteration of the paging loop
GetAssetIdsPage ==
    /\ pc = "get_asset_ids"
    /\ requests' = Append(requests, <<"search", page>>)
    /\ \E resp \in Responses, page_items \in PageItems(page, Len(all_items)) :
          IF resp = "http_error"
          THEN /\ failed' = "search"
               /\ CaughtInClient("HTTPError")
               /\ UNCHANGED << page, served, all_items >>
          ELSE /\ served' = Append(served, page_items)
               /\ all_items' = Extend(all_items, page_items)
               /\ page' = NextPage(page)
               /\ pc' = IF ContinuePaging(page_items)
                         THEN "get_asset_ids" ELSE "get_aligned_images"
               /\ UNCHANGED << failed, caught, raised >>
    /\ UNCHANGED << settings, key, orientation, matching, album_id, asset_ids,
                    rejected, img, result, pad, shutdowns >>

\* get_asset_ids after the loop: filter by orientation, return the ids
GetAlignedImages ==
    /\ pc = "get_aligned_images"
    /\ IF RaisesTypeError(all_items, orientation)
       THEN /\ CaughtInClient("TypeError")
            /\ UNCHANGED asset_ids
       ELSE /\ asset_ids' = Ids(get_aligned_images(all_items, orientation))
            /\ pc' = "choice"
            /\ UNCHANGED << caught, raised >>
    /\ UNCHANGED << settings, key, orientation, requests, matching, album_id, page,
                    served, all_items, rejected, img, failed, result, pad, shutdowns >>

\* get_image: choice(asset_ids) on an empty list, outside the try block
ChoiceEmpty ==
    /\ pc = "choice"
    /\ asset_ids = <<>>
    /\ raised' = "IndexError"
    /\ pc' = "done"
    /\ UNCHANGED << settings, key, orientation, requests, matching, album_id, page,
                    served, all_items, asset_ids, rejected, img, caught, failed,
                    result, pad, shutdowns >>

\* get_image: one iteration of the re-roll loop, outside the try block
Download ==
    /\ pc = "choice"
    /\ asset_ids # <<>>
    /\ \E i \in DOMAIN asset_ids, resp \in Responses \cup {"bad_image"}, d \in PixelDims :
          LET asset_id == asset_ids[i]
          IN  /\ requests' = Append(requests, <<"asset", asset_id>>)
              /\ IF resp = "http_error"
                 THEN /\ failed' = "asset"
                      /\ raised' = "HTTPError"
                      /\ pc' = "done"
                      /\ UNCHANGED << asset_ids, rejected, img >>
                 ELSE IF resp = "bad_image"
                 THEN /\ raised' = "UnidentifiedImageError"
                      /\ pc' = "done"
                      /\ UNCHANGED << asset_ids, rejected, img, failed >>
                 ELSE /\ img' = [id |-> asset_id, width |-> d[1], height |-> d[2]]
                      /\ UNCHANGED << failed, raised >>
                      /\ IF Len(asset_ids) > 1
                         THEN IF PixelAligned(orientation, d[1], d[2])
                              THEN /\ pc' = "post"
                                   /\ UNCHANGED << asset_ids, rejected >>
                              ELSE /\ asset_ids' = Remove(asset_ids, asset_id)
                                   /\ rejected' = Append(rejected, asset_id)
                                   /\ pc' = "choice"
                         ELSE /\ pc' = "post"
                              /\ UNCHANGED << asset_ids, rejected >>
    /\ UNCHANGED << settings, key, orientation, matching, album_id, page, served,
                    all_items, caught, result, pad, shutdowns >>

\* generate_image after get_image returned an image
PostProcess ==
    /\ pc = "post"
    /\ pc' = "done"
    /\ \E p \in PadImageValues, bo \in BackgroundOptions, bc \in BackgroundColors :
          IF PadRequested(p)
          THEN /\ UNCHANGED shutdowns
               /\ IF bo = "blur"
                  THEN /\ pad' = [padImage |-> p, backgroundOption |-> bo,
                                  backgroundColor |-> "unread"]
                       /\ result' = "pad_image_blur"
                       /\ UNCHANGED raised
                  ELSE /\ pad' = [padImage |-> p, backgroundOption |-> bo,
                                  backgroundColor |-> bc]
                       /\ \/ /\ result' = "ImageOps.pad"
                             /\ UNCHANGED raised
                          \/ /\ Falsy(bc)
                             /\ raised' = "AttributeError"
                             /\ UNCHANGED result
          ELSE /\ pad' = [padImage |-> p, backgroundOption |-> "unread",
                          backgroundColor |-> "unread"]
               /\ shutdowns' = shutdowns + 1
               /\ result' = "img"
               /\ UNCHANGED raised
    /\ UNCHANGED << settings, key, orientation, requests, matching, album_id, page,
                    served, all_items, asset_ids, rejected, img, caught, failed >>

Next ==
    \/ GenerateImage
    \/ GetAlbumId
    \/ GetAssetIdsPage
    \/ GetAlignedImages
    \/ ChoiceEmpty
    \/ Download
    \/ PostProcess

Spec == Init /\ [][Next]_vars

(* ---------------------------- properties ------------------------------- *)
\* number of candidates get_asset_ids hands to the re-roll loop
InitialCandidates == Len(get_aligned_images(all_items, orientation))

\* the download loop accepted an image and get_image returned it
Loaded ==
    /\ Len(Downloads) = Len(rejected) + 1
    /\ raised \notin {"HTTPError", "UnidentifiedImageError"}

\* get_asset_ids has returned its id list to get_image
Filtered == pc \in {"choice", "post"} \/ Downloads # <<>> \/ raised = "IndexError"

\* the paging loop of get_asset_ids has ended normally
Paged == pc = "get_aligned_images" \/ caught = "TypeError" \/ Filtered

RECURSIVE Flatten(_)
Flatten(ss) == IF ss = <<>> THEN <<>> ELSE Head(ss) \o Flatten(Tail(ss))

Range(f) == { f[i] : i \in DOMAIN f }

\* C1: the re-roll loop ends after at most as many downloads as the candidate
\* list initially had entries: every iteration that does not end the loop
\* removes one entry, and the list never runs empty inside the loop.
C1_RerollBounded ==
    /\ ~Filtered => Downloads = <<>>
    /\ Filtered => Len(Downloads) <= InitialCandidates
    /\ pc = "choice" /\ Downloads # <<>> =>
          /\ Len(rejected) = Len(Downloads)
          /\ Len(asset_ids) = InitialCandidates - Len(Downloads)
          /\ Len(asset_ids) >= 1
    /\ pc = "post" => Len(asset_ids) = InitialCandidates - Len(rejected)

C1_Witness ==
    /\ pc = "post"
    /\ InitialCandidates >= 3
    /\ Len(Downloads) = InitialCandidates

\* C2: an asset id whose download was rejected is never downloaded again
\* during the same call.
C2_RejectedNeverReused ==
    \A i \in DOMAIN rejected : \A j \in DOMAIN Downloads :
        j > i => Downloads[j] # rejected[i]

\* C3: an image get_image returns matches the orientation in its pixel
\* dimensions, unless the candidate list held exactly one entry when it was
\* downloaded.
C3_ReturnedAligned ==
    (pc = "post" \/ result # "none") =>
        \/ orientation = "horizontal" /\ img.width > img.height
        \/ orientation = "vertical" /\ img.height > img.width
        \/ Len(asset_ids) = 1

C3_Witness ==
    /\ pc = "post"
    /\ rejected # <<>>
    /\ Len(asset_ids) = 1
    /\ orientation = "horizontal"
    /\ img.width <= img.height

\* C4: get_asset_ids requests pages 1, 2, 3, ... each once, goes on exactly
\* while the last response was non-empty, and hands the filter the
\* concatenation of the non-empty pages before the first empty one.
C4_PagingExact ==
    /\ \A i \in DOMAIN SearchPages : SearchPages[i] = i
    /\ \A i \in 1..(Len(served) - 1) : served[i] # <<>>
    /\ pc = "get_asset_ids" =>
          /\ Len(SearchPages) = Len(served)
          /\ served # <<>> => served[Len(served)] # <<>>
    /\ Paged =>
          /\ served # <<>>
          /\ served[Len(served)] = <<>>
          /\ Len(SearchPages) = Len(served)
          /\ all_items = Flatten(SubSeq(served, 1, Len(served) - 1))

C4_Witness ==
    /\ pc = "get_aligned_images"
    /\ Len(served) = 3
    /\ Len(served[2]) = 2
    /\ Len(all_items) = 3

\* C5: the ids get_asset_ids returns are, in order, the ids of the assets
\* wider than high (horizontal) or higher than wide (vertical); square
\* assets are kept for no orientation.
C5_FilterExact ==
    (pc = "choice" /\ Downloads = <<>>) =>
        LET Keep(a) ==
                \/ orientation = "horizontal" /\ a.exifImageWidth > a.exifImageHeight
                \/ orientation = "vertical" /\ a.exifImageWidth < a.exifImageHeight
        IN  /\ asset_ids = Ids(SelectSeq(all_items, Keep))
            /\ \A i \in DOMAIN all_items :
                  all_items[i].exifImageWidth = all_items[i].exifImageHeight
                      => all_items[i].id \notin Range(asset_ids)

C5_Witness ==
    /\ pc = "choice"
    /\ Downloads = <<>>
    /\ orientation = "vertical"
    /\ Ids(all_items) = <<"a3", "a4", "a3">>
    /\ asset_ids = <<"a3", "a3">>

\* C6: when the album list holds no album of the requested name,
\* get_album_id fails with the RuntimeError "Album ... not found.".
C6_AlbumNotFoundError ==
    (pc = "done" /\ Len(requests) = 1 /\ failed = "none" /\ matching = <<>>) =>
        caught = "RuntimeError: Album not found."

\* C7: when the candidate list reaching the download loop is empty, the call
\* ends in the RuntimeError "Failed to load image, please check logs." and
\* no download request is issued.
C7_EmptyCandidatesDefinedError ==
    (pc = "done" /\ Filtered /\ asset_ids = <<>>) =>
        /\ raised = FailedToLoad
        /\ Downloads = <<>>

\* C8: a failure of any HTTP call of the client is caught and logged, and
\* leaves generate_image as the generic RuntimeError.
C8_HttpFailureGeneric ==
    failed # "none" =>
        /\ caught = "HTTPError"
        /\ raised = FailedToLoad

\* C9: with provider Immich, a missing key, URL or album raises the
\* RuntimeError of the first missing item in the order key, URL, album,
\* before any request, image or shutdown; requests are issued only when all
\* three are present.
C9_ConfigCheckedFirst ==
    LET Immich == settings.albumProvider = "Immich"
        Missing == Falsy(key) \/ Falsy(settings.url) \/ Falsy(settings.album)
    IN  /\ (Immich /\ Missing /\ pc # "generate_image") =>
              /\ pc = "done"
              /\ Falsy(key) => raised = "RuntimeError: Immich API Key not configured."
              /\ ~Falsy(key) /\ Falsy(settings.url) =>
                    raised = "RuntimeError: URL is required."
              /\ ~Falsy(key) /\ ~Falsy(settings.url) =>
                    raised = "RuntimeError: Album is required."
              /\ requests = <<>>
              /\ img = NoImg
              /\ result = "none"
              /\ shutdowns = 0
        /\ requests # <<>> => Immich /\ ~Missing

C9_Witness ==
    /\ pc = "done"
    /\ ~Falsy(key)
    /\ Falsy(settings.url)
    /\ Falsy(settings.album)
    /\ raised = "RuntimeError: URL is required."

\* C10: the shutdown command is issued exactly when an image was loaded and
\* padImage is not "true": once, with the unpadded image returned, and never
\* with a padded image or an error.
C10_ShutdownExactly ==
    /\ shutdowns <= 1
    /\ pc # "done" => shutdowns = 0
    /\ pc = "done" => (shutdowns = 1 <=> (Loaded /\ pad.padImage # "true"))
    /\ shutdowns = 1 => result = "img" /\ raised = "none"
    /\ (result \in {"pad_image_blur", "ImageOps.pad"} \/ raised # "none") => shutdowns = 0

C10_Witness ==
    /\ pc = "done"
    /\ shutdowns = 1
    /\ pad.padImage = "false"
    /\ result = "img"

====
